---- MODULE Spec2Model ----
(***************************************************************************)
(* Flow collection and aggregation engine of the P4 network monitor:       *)
(* FlowDataCollector (process_flow_digest, store_flow_metadata,            *)
(* update_redis_cache, cleanup_expired_flows) and StatisticsAggregator     *)
(* over one shared PostgreSQL connection and one Redis client.             *)
(*                                                                         *)
(* Every statement of the collector that touches shared state is one       *)
(* step of the thread executing it.  Spec interleaves the threads the      *)
(* controller starts (digest threads, the cleanup thread); SpecSeq runs    *)
(* one call at a time; SpecQuery adds the API thread running the queries   *)
(* of the aggregator, and SpecLive schedules that thread fairly.           *)
(***************************************************************************)
EXTENDS Integers, Sequences, FiniteSets, TLC

----------------------------------------------------------------------------
(* Bounds of the model *)

\* calls of process_flow_digest started in a behaviour
MaxCalls == 2
\* clock advances in a behaviour
MaxTicks == 3
\* seconds the clock advances by in one step
TickStep == 150
\* calls of time.sleep by the polling loop of start_monitoring in a behaviour
MaxSleeps == 2

----------------------------------------------------------------------------
(* Program constants *)

\* idle timeout of the sweep, seconds
TIMEOUT == 300
\* expiry of a per-flow cache hash, seconds
TTL == 300
\* microseconds per second (event timestamps)
MICRO == 1000000

\* Python None (a dict key when the digest carries no flow_id)
None == 0 - 1
\* SQL NULL in a timestamp column
NULL == 0 - 1

DigestThreads == {"d1", "d2"}
CleanupThread == "c"
Threads == DigestThreads \cup {CleanupThread}

\* the flow ids the event source reports
FlowIds == {1, 2}

----------------------------------------------------------------------------
(* Pure helpers *)

\* A 32-bit address is held as its two 16-bit halves <<high, low>>, the value being
\* high * 65536 + low (TLC's integers stop short of 2^32)
Addr(high, low) == <<high, low>>

\* a conversion that shifts by 24 for the second octet too
int_to_ip_misshifted(ip_int) ==
    << (ip_int[1] \div 256) % 256,
       (ip_int[1] \div 256) % 256,
       (ip_int[2] \div 256) % 256,
       ip_int[2] % 256 >>

\* f"{(ip_int >> 24) & 0xFF}.{(ip_int >> 16) & 0xFF}.{(ip_int >> 8) & 0xFF}.{ip_int & 0xFF}"
\* the dotted quad is the tuple of its four octets
int_to_ip(ip_int) ==
    << (ip_int[1] \div 256) % 256,
       ip_int[1] % 256,
       (ip_int[2] \div 256) % 256,
       ip_int[2] % 256 >>

\* the text of a dotted quad: the octets in decimal, joined by dots
Dotted(quad) ==
    ToString(quad[1]) \o "." \o ToString(quad[2]) \o "." \o
    ToString(quad[3]) \o "." \o ToString(quad[4])

\* str(flow_id) for the keys the model uses: None and one-digit integers
Str(k) ==
    IF k = None THEN "None"
    ELSE <<"0", "1", "2", "3", "4", "5", "6", "7", "8", "9">>[k + 1]

\* The digests of the event source: a mapping with every field
Digest(f, proto, pkts, ts) ==
    [ flow_id      |-> f,
      src_ip       |-> Addr(49320, 356),    \* 0xC0A80164
      dst_ip       |-> Addr(2560, 50),      \* 0x0A000032
      protocol     |-> proto,
      src_port     |-> 12345,
      dst_port     |-> 80,
      packet_count |-> pkts,
      byte_count   |-> pkts * 64,
      timestamp    |-> ts * MICRO ]

\* a mapping without key k
Drop(d, k) == [x \in (DOMAIN d) \ {k} |-> d[x]]

\* the protocol each simulated flow carries
ProtocolOf(f) == IF f = 1 THEN 6 ELSE 17

\* cumulative packet counts a digest may report
Counts == {10, 20}

\* what a caller may pass to process_flow_digest at time t: a mapping or not
Mapping(d) == [mapping |-> TRUE, d |-> d]
NonMapping == [mapping |-> FALSE, d |-> [k \in {} |-> 0]]

ValidInputs(t) ==
    { Mapping(Digest(f, ProtocolOf(f), p, t)) : f \in FlowIds, p \in Counts }

\* the digests two digest threads report at time t: one per flow
ThreadInputs(t) ==
    { Mapping(Digest(f, ProtocolOf(f), 10 * f, t)) : f \in FlowIds }

\* protocol numbers a digest may carry: the three named ones and others
ProtoSamples == {0, 1, 6, 17, 47, 255}

\* complete digests of the flows with any of these protocols
ProtoInputs(t) ==
    { Mapping(Digest(f, p, 10, t)) : f \in FlowIds, p \in ProtoSamples }

\* 16-bit halves of the addresses a digest may carry, and the addresses
Halves == {0, 255, 256, 356, 49320, 65535}
AddrSamples == { Addr(h, l) : h \in Halves, l \in Halves }

\* complete digests of the flows with any of these source addresses
AddrInputs(t) ==
    { Mapping([Digest(f, ProtocolOf(f), 10, t) EXCEPT !.src_ip = a]) :
        f \in FlowIds, a \in AddrSamples }

RequiredKeys == {"flow_id", "src_ip", "dst_ip", "protocol"}

MalformedInputs(t) ==
    { Mapping(Drop(Digest(1, 6, 10, t), k)) : k \in RequiredKeys }
    \cup { Mapping([k \in {} |-> 0]) }

\* well-formed by the spec's precondition, yet short of a field the code reads
PartialInputs(t) ==
    { Mapping(Drop(Digest(1, 6, 10, t), k)) : k \in {"packet_count", "timestamp"} }

\* a digest of flow 1 that differs from the flow's first in its 5-tuple and
\* carries the earliest timestamp
RetoldInputs == { Mapping(Digest(1, 17, 20, 0)) }

Inputs(t) ==
    ValidInputs(t) \cup MalformedInputs(t) \cup PartialInputs(t) \cup RetoldInputs
        \cup {NonMapping}

Has(d, k) == k \in DOMAIN d
\* dict.get(k) with default None / dict.get(k, 0)
Get(d, k, default) == IF Has(d, k) THEN d[k] ELSE default

\* flow_data['flow_id'], read where the key is known to be there
FlowIdOf(d) == Get(d, "flow_id", None)

\* the spec's precondition of process_event
WellFormed(x) == x.mapping /\ RequiredKeys \subseteq DOMAIN x.d
\* every field the code reads is present
Complete(x) == x.mapping /\ DOMAIN x.d = DOMAIN Digest(1, 6, 10, 0)

----------------------------------------------------------------------------
(* The tracker: a Python dict in insertion order, key -> last_seen *)

DictKeys(dct) == { dct[i].k : i \in DOMAIN dct }
DictHas(dct, k) == k \in DictKeys(dct)
DictGet(dct, k) == dct[CHOOSE i \in DOMAIN dct : dct[i].k = k].last_seen
\* d[k] = v: an existing key keeps its place, a new key goes last
DictSet(dct, k, v) ==
    IF DictHas(dct, k)
    THEN [i \in DOMAIN dct |-> IF dct[i].k = k THEN [k |-> k, last_seen |-> v] ELSE dct[i]]
    ELSE Append(dct, [k |-> k, last_seen |-> v])
\* del d[k]
DictDel(dct, k) == SelectSeq(dct, LAMBDA e : e.k # k)

----------------------------------------------------------------------------
(* State *)

VARIABLES
    now,            \* time.time(), whole seconds
    postgres_conn,  \* db.postgres_conn: "none" (never connected), "ok", "closed",
                    \* "aborted" (a statement failed in the open transaction)
    redis_client,   \* db.redis_client: "none" (never constructed), "ok"
    table,          \* monitoring.flow_metadata, committed rows in insertion order
    work,           \* the rows as the connection's open transaction sees them
    active_flows,   \* FlowDataCollector.active_flows, the tracker
    flow_hash,      \* Redis hashes flow:<id>, with their expiry
    active_set,     \* Redis set active_flows
    global_stats,   \* Redis hash global_stats
    pc,             \* the statement each thread is at
    local,          \* each thread's local variables
    started,        \* calls of process_flow_digest started so far
    ret,            \* what the last call of each thread gave its caller
    log,            \* the calls of process_flow_digest that have ended, in order
    query,          \* the call of the StatisticsAggregator the API thread is in
    ctl             \* the P4Controller: its fields, its threads, its main thread

store_vars == <<postgres_conn, table, work>>
cache_vars == <<redis_client, flow_hash, active_set, global_stats>>
vars == <<now, postgres_conn, redis_client, table, work, active_flows,
          flow_hash, active_set, global_stats, pc, local, started, ret, log, query, ctl>>

NoExpiry == 0 - 1

IdleLocal == [digest_data |-> NonMapping, found |-> FALSE, stored |-> FALSE, before |-> "none"]
\* errors: what the sweep has logged at line 195, the flow id and the exception
IdleSweep == [current_time |-> 0, it_used |-> 0, it_pos |-> 0, expired |-> <<>>,
              errors |-> <<>>]
\* no query in progress and none made yet
IdleQuery == [name |-> "none", pc |-> "idle", limit |-> 0, stats |-> <<>>, result |-> <<>>]

\* P4Controller.__init__: no client, not running, no thread started; the main
\* thread is between two calls of the controller's methods
NewController ==
    [client |-> FALSE, is_running |-> FALSE, pc |-> "idle", sleeps |-> 0,
     threads |-> [t \in Threads |-> "unstarted"], logged |-> {}]

\* DatabaseManager.setup_connections: psycopg2.connect either succeeds, and the
\* Redis client is constructed after it, or raises, and neither handle is set
Init ==
    /\ now = 0
    /\ \/ postgres_conn = "ok" /\ redis_client = "ok"
       \/ postgres_conn = "none" /\ redis_client = "none"
    /\ table = <<>>
    /\ work = <<>>
    /\ active_flows = <<>>
    /\ flow_hash = [k \in {} |-> 0]
    /\ active_set = {}
    /\ global_stats = [k \in {} |-> 0]
    /\ pc = [t \in Threads |-> "idle"]
    /\ local = [t \in Threads |-> IF t = CleanupThread THEN IdleSweep ELSE IdleLocal]
    /\ started = 0
    /\ ret = [t \in DigestThreads |-> "no call"]
    /\ log = <<>>
    /\ query = IdleQuery
    /\ ctl = NewController

----------------------------------------------------------------------------
(* Exception handlers *)

\* a handler that catches KeyError alone
ProcessCatchesKeyError(exc) == exc = "KeyError"

\* process_flow_digest, line 87: except Exception
ProcessCatches(exc) == TRUE
\* store_flow_metadata, line 130: except Exception
StoreCatches(exc) == TRUE
\* update_redis_cache, line 165: except Exception
CacheCatches(exc) == TRUE

\* process_flow_digest has no return statement: its caller gets None, or the
\* exception that reached its handler when the handler does not catch it
Outcome(exc) ==
    IF exc = "none" \/ ProcessCatches(exc) THEN "None" ELSE exc

Goto(t, label) == pc' = [pc EXCEPT ![t] = label]

\* the call of thread t on input x ends.  raised is the last exception raised in
\* the call, reaching the exception that got to process_flow_digest's handler.
\* The log keeps the input, the status the flow's record had when the call began
\* (before), whether the call committed its upsert (stored), whether it sent
\* every cache command (cached), and raised
Return(t, x, raised, reaching, cached) ==
    /\ Goto(t, "idle")
    /\ local' = [local EXCEPT ![t] = IdleLocal]
    /\ ret' = [ret EXCEPT ![t] = Outcome(reaching)]
    /\ log' = Append(log, [x |-> x, before |-> local[t].before,
                           stored |-> local[t].stored, cached |-> cached,
                           raised |-> raised])

\* an exception raised inside store_flow_metadata's try block: the handler logs it
\* and rolls back when there is a connection object
StoreRaise(t, exc) ==
    IF StoreCatches(exc)
    THEN IF postgres_conn # "none"
         THEN Goto(t, "rollback") /\ UNCHANGED <<local, ret, log>>
         ELSE Goto(t, "hset") /\ UNCHANGED <<local, ret, log>>
    ELSE Return(t, local[t].digest_data, exc, exc, FALSE)

\* an exception raised inside update_redis_cache's try block: the handler logs it
CacheRaise(t, exc) ==
    Return(t, local[t].digest_data, exc, IF CacheCatches(exc) THEN "none" ELSE exc, FALSE)

\* a Redis command: there is no client, or the server does not answer this
\* command (redis-py connects anew for the next one), or it is carried out
RedisError(answers) ==
    IF redis_client = "none" THEN "AttributeError"
    ELSE IF ~answers THEN "ConnectionError"
    ELSE "none"

\* a cursor cannot be opened or a statement cannot be sent; in a transaction that
\* a failed statement aborted the server refuses every statement until a rollback
PostgresError ==
    IF postgres_conn = "none" THEN "AttributeError"
    ELSE IF postgres_conn = "closed" THEN "InterfaceError"
    ELSE IF postgres_conn = "aborted" THEN "InFailedSqlTransaction"
    ELSE "none"

\* commit() and rollback() raise on a handle that is closed (or None) only
EndError ==
    IF postgres_conn = "none" THEN "AttributeError"
    ELSE IF postgres_conn = "closed" THEN "InterfaceError"
    ELSE "none"

\* the handle after commit() or rollback() ended the transaction
Ended == IF postgres_conn = "aborted" THEN "ok" ELSE postgres_conn

----------------------------------------------------------------------------
(* FlowDataCollector.process_flow_digest *)

RowsOf(rows, fid) == { i \in DOMAIN rows : rows[i].flow_id = fid }

\* the status the rows of flow fid show: "none" without a row
StatusOf(rows, fid) ==
    IF RowsOf(rows, fid) = {} THEN "none"
    ELSE IF \E i \in RowsOf(rows, fid) : rows[i].status = "inactive" THEN "inactive"
    ELSE "active"

\* lines 71-77: flow_id = digest_data.get('flow_id'); self.active_flows[flow_id] = ...
Begin(t, x) ==
    /\ pc[t] = "idle"
    /\ started < MaxCalls
    /\ started' = started + 1
    /\ IF ~x.mapping
       THEN /\ Return(t, x, "AttributeError", "AttributeError", FALSE)
            /\ UNCHANGED active_flows
       ELSE /\ active_flows' = DictSet(active_flows, Get(x.d, "flow_id", None), now)
            /\ Goto(t, "select")
            /\ local' = [local EXCEPT ![t] =
                            [digest_data |-> x, found |-> FALSE, stored |-> FALSE,
                             before |-> StatusOf(table, Str(Get(x.d, "flow_id", None)))]]
            /\ UNCHANGED <<ret, log>>
    /\ UNCHANGED <<now, query, ctl, store_vars, cache_vars>>

\* lines 93-101: cursor(); SELECT id ... WHERE flow_id = %s; fetchone()
Select(t) ==
    /\ pc[t] = "select"
    /\ LET d == local[t].digest_data.d IN
       IF PostgresError # "none" THEN
            StoreRaise(t, PostgresError)
       ELSE IF ~Has(d, "flow_id") THEN
            StoreRaise(t, "KeyError")
       ELSE /\ local' = [local EXCEPT ![t].found = RowsOf(work, Str(FlowIdOf(d))) # {}]
            /\ Goto(t, "write")
            /\ UNCHANGED <<ret, log>>
    /\ UNCHANGED <<now, query, ctl, store_vars, cache_vars, active_flows, started>>

\* an INSERT that writes the new row as inactive
NewRowInactive(d) ==
    [ flow_id         |-> Str(FlowIdOf(d)),
      switch_id       |-> "switch-1",
      src_ip          |-> int_to_ip(d.src_ip),
      dst_ip          |-> int_to_ip(d.dst_ip),
      src_port        |-> Get(d, "src_port", 0),
      dst_port        |-> Get(d, "dst_port", 0),
      protocol        |-> d.protocol,
      flow_start_time |-> d.timestamp \div MICRO,
      flow_end_time   |-> NULL,
      status          |-> "inactive",
      created_at      |-> now,
      updated_at      |-> now ]

\* lines 109-118: the row an INSERT adds; created_at and updated_at default to NOW()
NewRow(d) ==
    [ flow_id         |-> Str(FlowIdOf(d)),
      switch_id       |-> "switch-1",
      src_ip          |-> int_to_ip(d.src_ip),
      dst_ip          |-> int_to_ip(d.dst_ip),
      src_port        |-> Get(d, "src_port", 0),
      dst_port        |-> Get(d, "dst_port", 0),
      protocol        |-> d.protocol,
      flow_start_time |-> d.timestamp \div MICRO,
      flow_end_time   |-> NULL,
      status          |-> "active",
      created_at      |-> now,
      updated_at      |-> now ]

InsertKeys == {"flow_id", "src_ip", "dst_ip", "protocol", "timestamp"}

\* an upsert that sets the status back to active when it refreshes the row
RefreshReactivating(rows, fid) ==
    [i \in DOMAIN rows |->
        IF rows[i].flow_id = fid
        THEN [rows[i] EXCEPT !.updated_at = now, !.status = "active"]
        ELSE rows[i]]

\* an upsert that inserts a second row for a flow that has one
RefreshInserting(rows, fid) ==
    Append(rows, [rows[CHOOSE i \in DOMAIN rows : rows[i].flow_id = fid]
                    EXCEPT !.created_at = now, !.updated_at = now])

\* an upsert that also moves the start of the flow to the time of the refresh
RefreshRestarting(rows, fid) ==
    [i \in DOMAIN rows |->
        IF rows[i].flow_id = fid
        THEN [rows[i] EXCEPT !.updated_at = now, !.flow_start_time = now]
        ELSE rows[i]]

\* lines 121-125: UPDATE ... SET updated_at = NOW() WHERE flow_id = %s
Refresh(rows, fid) ==
    [i \in DOMAIN rows |->
        IF rows[i].flow_id = fid THEN [rows[i] EXCEPT !.updated_at = now] ELSE rows[i]]

\* lines 101-125: INSERT when fetchone() gave None, else UPDATE
Write(t) ==
    /\ pc[t] = "write"
    /\ LET d == local[t].digest_data.d IN
       IF ~local[t].found /\ ~(InsertKeys \subseteq DOMAIN d) THEN
            StoreRaise(t, "KeyError") /\ UNCHANGED work
       ELSE IF PostgresError # "none" THEN
            StoreRaise(t, PostgresError) /\ UNCHANGED work
       ELSE /\ work' = IF local[t].found THEN Refresh(work, Str(FlowIdOf(d)))
                       ELSE Append(work, NewRow(d))
            /\ Goto(t, "commit")
            /\ UNCHANGED <<local, ret, log>>
    /\ UNCHANGED <<now, query, ctl, postgres_conn, table, cache_vars, active_flows, started>>

\* lines 127-128: self.db.postgres_conn.commit(); cursor.close().  The COMMIT of
\* an aborted transaction is answered by a rollback and raises nothing
Commit(t) ==
    /\ pc[t] = "commit"
    /\ IF EndError # "none"
       THEN StoreRaise(t, EndError) /\ UNCHANGED <<postgres_conn, table, work>>
       ELSE /\ table' = IF postgres_conn = "aborted" THEN table ELSE work
            /\ work' = table'
            /\ postgres_conn' = Ended
            /\ Goto(t, "hset")
            /\ local' = [local EXCEPT ![t].stored = (postgres_conn = "ok")]
            /\ UNCHANGED <<ret, log>>
    /\ UNCHANGED <<now, query, ctl, cache_vars, active_flows, started>>

\* lines 131-133: the handler's self.db.postgres_conn.rollback(); on a closed
\* connection it raises out of store_flow_metadata, past update_redis_cache
Rollback(t) ==
    /\ pc[t] = "rollback"
    /\ IF EndError # "none"
       THEN Return(t, local[t].digest_data, EndError, EndError, FALSE)
            /\ UNCHANGED <<postgres_conn, work>>
       ELSE /\ work' = table
            /\ postgres_conn' = Ended
            /\ Goto(t, "hset")
            /\ UNCHANGED <<local, ret, log>>
    /\ UNCHANGED <<now, query, ctl, table, cache_vars, active_flows, started>>

----------------------------------------------------------------------------
(* FlowDataCollector.update_redis_cache *)

\* a cache update that reads flow_id with .get()
CacheKeysLenient == {"src_ip", "dst_ip", "protocol", "packet_count", "byte_count"}

CacheKeys == {"flow_id", "src_ip", "dst_ip", "protocol", "packet_count", "byte_count"}

\* lines 141-150: the fields HSET writes; the key keeps the expiry it had
HashFields(d, old_expiry) ==
    [ src_ip       |-> int_to_ip(d.src_ip),
      dst_ip       |-> int_to_ip(d.dst_ip),
      protocol     |-> d.protocol,
      src_port     |-> Get(d, "src_port", 0),
      dst_port     |-> Get(d, "dst_port", 0),
      packet_count |-> d.packet_count,
      byte_count   |-> d.byte_count,
      last_seen    |-> now,
      expire_at    |-> old_expiry ]

\* f with f[k] = v, k added to the domain if new
Put(f, k, v) == [x \in (DOMAIN f) \cup {k} |-> IF x = k THEN v ELSE f[x]]

\* lines 138-150: flow_key = f"flow:{flow_data['flow_id']}"; hset(flow_key, mapping=...)
HSet(t, answers) ==
    /\ pc[t] = "hset"
    /\ LET d == local[t].digest_data.d IN
       IF ~(CacheKeys \subseteq DOMAIN d) THEN
            CacheRaise(t, "KeyError") /\ UNCHANGED flow_hash
       ELSE IF RedisError(answers) # "none" THEN
            CacheRaise(t, RedisError(answers)) /\ UNCHANGED flow_hash
       ELSE LET key == Str(FlowIdOf(d))
                old == IF key \in DOMAIN flow_hash THEN flow_hash[key].expire_at ELSE NoExpiry
            IN /\ flow_hash' = Put(flow_hash, key, HashFields(d, old))
               /\ Goto(t, "expire")
               /\ UNCHANGED <<local, ret, log>>
    /\ UNCHANGED <<now, query, ctl, store_vars, redis_client, active_set, global_stats,
                   active_flows, started>>

\* line 153: expire(flow_key, 300); a key that is gone is left alone
Expire(t, answers) ==
    /\ pc[t] = "expire"
    /\ IF RedisError(answers) # "none" THEN
            CacheRaise(t, RedisError(answers)) /\ UNCHANGED flow_hash
       ELSE LET key == Str(FlowIdOf(local[t].digest_data.d)) IN
            /\ flow_hash' = IF key \in DOMAIN flow_hash
                            THEN [flow_hash EXCEPT ![key].expire_at = now + TTL]
                            ELSE flow_hash
            /\ Goto(t, "sadd")
            /\ UNCHANGED <<local, ret, log>>
    /\ UNCHANGED <<now, query, ctl, store_vars, redis_client, active_set, global_stats,
                   active_flows, started>>

\* line 156: sadd("active_flows", str(flow_data['flow_id']))
SAdd(t, answers) ==
    /\ pc[t] = "sadd"
    /\ IF RedisError(answers) # "none" THEN
            CacheRaise(t, RedisError(answers)) /\ UNCHANGED active_set
       ELSE /\ active_set' = active_set \cup {Str(FlowIdOf(local[t].digest_data.d))}
            /\ Goto(t, "hincrby_packets")
            /\ UNCHANGED <<local, ret, log>>
    /\ UNCHANGED <<now, query, ctl, store_vars, redis_client, flow_hash, global_stats,
                   active_flows, started>>

\* HSET in place of HINCRBY: the field is overwritten
HOverwrite(h, field, n) == [x \in (DOMAIN h) \cup {field} |-> IF x = field THEN n ELSE h[x]]

\* an increment that counts the call and not its amount
HIncrByOne(h, field, n) == Put(h, field, Get(h, field, 0) + 1)

\* HINCRBY: the field counts from 0 when it is not there
HIncrBy(h, field, n) == Put(h, field, Get(h, field, 0) + n)

\* lines 159-160: hincrby("global_stats", "total_packets", flow_data['packet_count'])
HIncrPackets(t, answers) ==
    /\ pc[t] = "hincrby_packets"
    /\ IF RedisError(answers) # "none" THEN
            CacheRaise(t, RedisError(answers)) /\ UNCHANGED global_stats
       ELSE /\ global_stats' = HIncrBy(global_stats, "total_packets",
                                       Get(local[t].digest_data.d, "packet_count", 0))
            /\ Goto(t, "hincrby_bytes")
            /\ UNCHANGED <<local, ret, log>>
    /\ UNCHANGED <<now, query, ctl, store_vars, redis_client, flow_hash, active_set,
                   active_flows, started>>

\* lines 161-162: hincrby("global_stats", "total_bytes", flow_data['byte_count'])
HIncrBytes(t, answers) ==
    /\ pc[t] = "hincrby_bytes"
    /\ IF RedisError(answers) # "none" THEN
            CacheRaise(t, RedisError(answers)) /\ UNCHANGED global_stats
       ELSE /\ global_stats' = HIncrBy(global_stats, "total_bytes",
                                       Get(local[t].digest_data.d, "byte_count", 0))
            /\ Goto(t, "hset_last_update")
            /\ UNCHANGED <<local, ret, log>>
    /\ UNCHANGED <<now, query, ctl, store_vars, redis_client, flow_hash, active_set,
                   active_flows, started>>

\* line 163: hset("global_stats", "last_update", time.time()); then lines 85-86
HSetLastUpdate(t, answers) ==
    /\ pc[t] = "hset_last_update"
    /\ IF RedisError(answers) # "none" THEN
            CacheRaise(t, RedisError(answers)) /\ UNCHANGED global_stats
       ELSE /\ global_stats' = Put(global_stats, "last_update", now)
            /\ Return(t, local[t].digest_data, "none", "none", TRUE)
    /\ UNCHANGED <<now, query, ctl, store_vars, redis_client, flow_hash, active_set,
                   active_flows, started>>

----------------------------------------------------------------------------
(* FlowDataCollector.cleanup_expired_flows, called by P4Controller.periodic_cleanup *)

\* a test that also takes a flow idle for exactly the timeout
IsExpiredAtTimeout(current_time, last_seen) == current_time - last_seen >= TIMEOUT

\* line 179: current_time - flow_info['last_seen'] > 300
IsExpired(current_time, last_seen) == current_time - last_seen > TIMEOUT

\* lines 175-178: current_time = time.time(); the iterator over active_flows.items()
SweepBegin ==
    /\ pc[CleanupThread] = "idle"
    /\ local' = [local EXCEPT ![CleanupThread] =
                    [current_time |-> now, it_used |-> Len(active_flows),
                     it_pos |-> 1, expired |-> <<>>, errors |-> <<>>]]
    /\ Goto(CleanupThread, "scan")
    /\ UNCHANGED <<now, query, ctl, store_vars, cache_vars, active_flows, started, ret, log>>

\* lines 178-180: one turn of the for loop.  The iterator raises RuntimeError when
\* the dict changed size since it was made; periodic_cleanup logs it (controller.py
\* lines 296-298) and the sweep is over
Scan ==
    /\ pc[CleanupThread] = "scan"
    /\ LET l == local[CleanupThread] IN
       IF Len(active_flows) # l.it_used THEN
            /\ Goto(CleanupThread, "idle")
            /\ local' = [local EXCEPT ![CleanupThread] = IdleSweep]
       ELSE IF l.it_pos > Len(active_flows) THEN
            /\ Goto(CleanupThread, "del")
            /\ local' = [local EXCEPT ![CleanupThread].it_pos = 1]
       ELSE LET e == active_flows[l.it_pos] IN
            /\ local' = [local EXCEPT
                    ![CleanupThread].it_pos = l.it_pos + 1,
                    ![CleanupThread].expired =
                        IF IsExpired(l.current_time, e.last_seen)
                        THEN Append(l.expired, e.k) ELSE l.expired]
            /\ UNCHANGED pc
    /\ UNCHANGED <<now, query, ctl, store_vars, cache_vars, active_flows, started, ret, log>>

\* lines 182-183: for flow_id in expired_flows: del self.active_flows[flow_id];
\* lines 197-198 when the list is done
SweepDel ==
    /\ pc[CleanupThread] = "del"
    /\ LET l == local[CleanupThread] IN
       IF l.it_pos > Len(l.expired) THEN
            /\ Goto(CleanupThread, "idle")
            /\ local' = [local EXCEPT ![CleanupThread] = IdleSweep]
            /\ UNCHANGED active_flows
       ELSE /\ active_flows' = DictDel(active_flows, l.expired[l.it_pos])
            /\ Goto(CleanupThread, "demote")
            /\ UNCHANGED local
    /\ UNCHANGED <<now, query, ctl, store_vars, cache_vars, started, ret, log>>

\* an UPDATE that stamps the end time and leaves the status
DemoteEndTimeOnly(rows, fid) ==
    [i \in DOMAIN rows |->
        IF rows[i].flow_id = fid THEN [rows[i] EXCEPT !.flow_end_time = now] ELSE rows[i]]

\* an UPDATE that sets the status and leaves the end time
DemoteStatusOnly(rows, fid) ==
    [i \in DOMAIN rows |->
        IF rows[i].flow_id = fid THEN [rows[i] EXCEPT !.status = "inactive"] ELSE rows[i]]

\* lines 187-191: UPDATE ... SET status = 'inactive', flow_end_time = NOW() WHERE flow_id = %s
Demote(rows, fid) ==
    [i \in DOMAIN rows |->
        IF rows[i].flow_id = fid
        THEN [rows[i] EXCEPT !.status = "inactive", !.flow_end_time = now]
        ELSE rows[i]]

\* the for loop goes on to the next expired flow
SweepNext ==
    /\ local' = [local EXCEPT ![CleanupThread].it_pos = local[CleanupThread].it_pos + 1]
    /\ Goto(CleanupThread, "del")

\* lines 194-195: except Exception logs the failure, and the loop goes on
SweepError(exc) ==
    LET l == local[CleanupThread] IN
    /\ local' = [local EXCEPT
            ![CleanupThread].it_pos = l.it_pos + 1,
            ![CleanupThread].errors =
                Append(l.errors, [flow_id |-> l.expired[l.it_pos], exc |-> exc])]
    /\ Goto(CleanupThread, "del")

\* lines 186-191: cursor(); execute(UPDATE).  The server may fail the statement
\* (fails): the transaction is then aborted, and the handler at lines 194-195 logs
\* without a rollback
SweepUpdate(fails) ==
    /\ pc[CleanupThread] = "demote"
    /\ LET l == local[CleanupThread] IN
       IF PostgresError # "none" THEN
            SweepError(PostgresError) /\ UNCHANGED <<postgres_conn, work>>
       ELSE IF fails THEN
            SweepError("OperationalError") /\ postgres_conn' = "aborted" /\ UNCHANGED work
       ELSE /\ work' = Demote(work, Str(l.expired[l.it_pos]))
            /\ Goto(CleanupThread, "sweep_commit")
            /\ UNCHANGED <<postgres_conn, local>>
    /\ UNCHANGED <<now, query, ctl, table, cache_vars, active_flows, started, ret, log>>

\* lines 192-193: commit(); cursor.close()
SweepCommit ==
    /\ pc[CleanupThread] = "sweep_commit"
    /\ IF EndError # "none" THEN SweepError(EndError) ELSE SweepNext
    /\ table' = IF postgres_conn = "ok" THEN work ELSE table
    /\ work' = IF EndError # "none" THEN work ELSE table'
    /\ postgres_conn' = Ended
    /\ UNCHANGED <<now, query, ctl, cache_vars, active_flows, started, ret, log>>

----------------------------------------------------------------------------
(* The environment *)

AllIdle == \A u \in Threads : pc[u] = "idle"

TicksTaken == now \div TickStep

\* Redis drops a hash whose expiry has passed
Unexpired(h, t) ==
    [k \in {x \in DOMAIN h : h[x].expire_at = NoExpiry \/ h[x].expire_at > t} |-> h[k]]

\* the clock's step is long against a call: it advances between calls
Tick ==
    /\ TicksTaken < MaxTicks
    /\ AllIdle
    /\ now' = now + TickStep
    /\ flow_hash' = Unexpired(flow_hash, now + TickStep)
    /\ UNCHANGED <<store_vars, redis_client, active_set, global_stats,
                   active_flows, pc, local, started, ret, log, query, ctl>>

\* the server goes away, or P4Controller.disconnect closes the connection
\* (controller.py line 160): the open transaction is lost, the handle stays set
ConnectionLost ==
    /\ postgres_conn \in {"ok", "aborted"}
    /\ postgres_conn' = "closed"
    /\ work' = table
    /\ UNCHANGED <<now, query, ctl, table, cache_vars, active_flows, pc, local, started, ret, log, ctl>>

----------------------------------------------------------------------------
(* StatisticsAggregator *)

\* total_bytes read from the total_packets field
get_current_statistics_swapped(answers) ==
    [ active_flows       |-> IF redis_client = "none" \/ ~answers THEN 0
                             ELSE Cardinality(active_set),
      total_packets      |-> IF redis_client = "none" \/ ~answers THEN 0
                             ELSE IF "total_packets" \in DOMAIN global_stats
                                  THEN global_stats["total_packets"] ELSE 0,
      total_bytes        |-> IF redis_client = "none" \/ ~answers THEN 0
                             ELSE IF "total_packets" \in DOMAIN global_stats
                                  THEN global_stats["total_packets"] ELSE 0,
      last_update        |-> now,
      switches_connected |-> 2 ]

\* a handler that reports the counters as zero and the last update as never
ZeroStatsUnstamped ==
    [ active_flows       |-> 0,
      total_packets      |-> 0,
      total_bytes        |-> 0,
      last_update        |-> 0,
      switches_connected |-> 0 ]

\* lines 285-293: the handler's result, stamped with time.time()
ZeroStats ==
    [ active_flows       |-> 0,
      total_packets      |-> 0,
      total_bytes        |-> 0,
      last_update        |-> now,
      switches_connected |-> 0 ]

\* lines 277-283: the result built from the answers of hgetall and scard
StatsOf(stats, active_flow_count) ==
    [ active_flows       |-> active_flow_count,
      total_packets      |-> Get(stats, "total_packets", 0),
      total_bytes        |-> Get(stats, "total_bytes", 0),
      last_update        |-> Get(stats, "last_update", 0),
      switches_connected |-> 2 ]

\* lines 271-293: hgetall("global_stats") and scard("active_flows") answered in one
\* state; any failure gives the zeroed result stamped with the call time
get_current_statistics(answers) ==
    IF RedisError(answers) # "none"
    THEN ZeroStats
    ELSE StatsOf(global_stats, Cardinality(active_set))

\* the empty dict, the empty list
EmptyMapping == [k \in {} |-> 0]
EmptyList == <<>>

\* WHERE status = 'active'
ActiveRows(rows) == { i \in DOMAIN rows : rows[i].status = "active" }

\* a mapping that names every unlisted protocol alike
get_protocol_name_unnumbered(protocol_num) ==
    IF protocol_num = 1 THEN "ICMP"
    ELSE IF protocol_num = 6 THEN "TCP"
    ELSE IF protocol_num = 17 THEN "UDP"
    ELSE "Protocol-"

\* lines 239-246: protocol_map.get(protocol_num, f'Protocol-{protocol_num}')
get_protocol_name(protocol_num) ==
    IF protocol_num = 1 THEN "ICMP"
    ELSE IF protocol_num = 6 THEN "TCP"
    ELSE IF protocol_num = 17 THEN "UDP"
    ELSE "Protocol-" \o ToString(protocol_num)

\* lines 210-215: SELECT protocol, COUNT(*) ... WHERE status = 'active' GROUP BY protocol
GroupByProtocol(rows) ==
    LET protocols == { rows[i].protocol : i \in ActiveRows(rows) } IN
    [ p \in protocols |-> Cardinality({ i \in ActiveRows(rows) : rows[i].protocol = p }) ]

RECURSIVE Sum(_)
\* sum(row['count'] for row in results)
Sum(counts) ==
    IF DOMAIN counts = {} THEN 0
    ELSE LET p == CHOOSE x \in DOMAIN counts : TRUE
         IN counts[p] + Sum([x \in (DOMAIN counts) \ {p} |-> counts[x]])

\* count / total, a share of one and not of a hundred
PercentageOfOne(count, total) == [num |-> count, den |-> total]

\* (row['count'] / total) * 100 as the exact fraction num / den; the rounding of
\* the float division is not modelled
Percentage(count, total) == [num |-> count * 100, den |-> total]

\* lines 220-232: the dict built from the result set, keyed by protocol name
Distribution(rows) ==
    LET results == GroupByProtocol(rows)
        total == Sum(results)
    IN IF total = 0 THEN EmptyMapping
       ELSE [ name \in { get_protocol_name(p) : p \in DOMAIN results } |->
                LET p == CHOOSE x \in DOMAIN results : get_protocol_name(x) = name
                IN [count |-> results[p], percentage |-> Percentage(results[p], total)] ]

\* lines 208-236: the query on the connection's view of the table; any exception
\* (no handle, closed or aborted connection, a failed statement) gives {}
calculate_protocol_distribution(fails) ==
    IF PostgresError # "none" \/ fails THEN EmptyMapping ELSE Distribution(work)

\* ORDER BY fm.created_at ASC: the oldest records first
TopFlowsOldestFirst(rows, limit) ==
    LET act == ActiveRows(rows)
        n == IF limit < Cardinality(act) THEN limit ELSE Cardinality(act)
    IN { q \in [1..n -> act] :
            /\ \A i, j \in 1..n : i < j =>
                    /\ q[i] # q[j]
                    /\ rows[q[i]].created_at <= rows[q[j]].created_at
            /\ \A o \in act \ { q[k] : k \in 1..n } :
                    \A k \in 1..n : rows[o].created_at >= rows[q[k]].created_at }

\* lines 252-258: ORDER BY fm.created_at DESC LIMIT %s names no second sort key:
\* the server may return rows of equal created_at in any order, and cut any of
\* them off at the limit.  The orders are sequences of row numbers
TopFlowsOrders(rows, limit) ==
    LET act == ActiveRows(rows)
        n == IF limit < Cardinality(act) THEN limit ELSE Cardinality(act)
    IN { q \in [1..n -> act] :
            /\ \A i, j \in 1..n : i < j =>
                    /\ q[i] # q[j]
                    /\ rows[q[i]].created_at >= rows[q[j]].created_at
            /\ \A o \in act \ { q[k] : k \in 1..n } :
                    \A k \in 1..n : rows[o].created_at <= rows[q[k]].created_at }

\* lines 260-263: [dict(row) for row in results]
TopFlows(rows, limit) ==
    { [k \in DOMAIN q |-> rows[q[k]]] : q \in TopFlowsOrders(rows, limit) }

\* lines 250-267: the values get_top_flows may return; LIMIT refuses a negative
\* count, and any exception gives []
get_top_flows(limit, fails) ==
    IF PostgresError # "none" \/ fails \/ limit < 0 THEN {EmptyList}
    ELSE TopFlows(work, limit)

----------------------------------------------------------------------------
(* The queries as the API thread runs them: each step is one answer of a store *)

\* the limits a caller passes to get_top_flows
Limits == {0 - 1, 0, 1, 2}

QueryNames == {"current_statistics", "top_flows", "protocol_distribution"}

\* the query returns result to its caller
QueryReturn(result) ==
    query' = [query EXCEPT !.pc = "idle", !.stats = EmptyMapping, !.result = result]

\* a coroutine of the aggregator is awaited (api_controller.py lines 69, 82, 173-174)
QueryStart(name, limit) ==
    /\ query.pc = "idle"
    /\ query' = [name |-> name,
                 pc |-> IF name = "current_statistics" THEN "hgetall" ELSE "execute",
                 limit |-> limit, stats |-> EmptyMapping, result |-> EmptyList]
    /\ UNCHANGED <<now, store_vars, cache_vars, active_flows, pc, local, started, ret, log, ctl>>

\* line 272: stats = self.db.redis_client.hgetall("global_stats")
HGetAll(answers) ==
    /\ query.pc = "hgetall"
    /\ IF RedisError(answers) # "none"
       THEN QueryReturn(get_current_statistics(answers))
       ELSE query' = [query EXCEPT !.pc = "scard", !.stats = global_stats]
    /\ UNCHANGED <<now, store_vars, cache_vars, active_flows, pc, local, started, ret, log, ctl>>

\* lines 275-283: active_flow_count = self.db.redis_client.scard("active_flows"); return
SCard(answers) ==
    /\ query.pc = "scard"
    /\ IF RedisError(answers) # "none"
       THEN QueryReturn(get_current_statistics(answers))
       ELSE QueryReturn(StatsOf(query.stats, Cardinality(active_set)))
    /\ UNCHANGED <<now, store_vars, cache_vars, active_flows, pc, local, started, ret, log, ctl>>

\* a statement the server fails leaves the connection's transaction aborted: the
\* handlers at lines 234-236 and 265-267 return the default without a rollback
AfterSelect(failed) ==
    IF PostgresError = "none" /\ failed THEN "aborted" ELSE postgres_conn

\* lines 251-263: cursor(); execute(SELECT ... LIMIT %s); fetchall(); return
TopFlowsExecute(fails) ==
    /\ query.pc = "execute" /\ query.name = "top_flows"
    /\ \E r \in get_top_flows(query.limit, fails) : QueryReturn(r)
    /\ postgres_conn' = AfterSelect(fails \/ query.limit < 0)
    /\ UNCHANGED <<now, table, work, cache_vars, active_flows, pc, local, started, ret, log, ctl>>

\* lines 209-232: cursor(); execute(SELECT ... GROUP BY protocol); fetchall(); return
DistributionExecute(fails) ==
    /\ query.pc = "execute" /\ query.name = "protocol_distribution"
    /\ QueryReturn(calculate_protocol_distribution(fails))
    /\ postgres_conn' = AfterSelect(fails)
    /\ UNCHANGED <<now, table, work, cache_vars, active_flows, pc, local, started, ret, log, ctl>>

----------------------------------------------------------------------------
(* P4Controller *)

\* the name db_manager of the controller module: `from data_collector import
\* db_manager' (line 19) binds it when the module is imported, to the None that
\* data_collector holds before initialize_data_collector() runs, and the
\* assignment in initialize_data_collector rebinds data_collector's name only
db_manager == FALSE

\* the process has not ended
Alive == ctl.pc # "exited"

\* a loop that goes on whatever is_running says
RunningWhenStarted(t) == Alive /\ ctl.threads[t] = "running"

\* `while self.is_running:' of simulate_digest_processing and periodic_cleanup
\* lets thread t start one more call
Running(t) == Alive /\ ctl.threads[t] = "running" /\ ctl.is_running

ctl_frame == <<now, store_vars, cache_vars, active_flows, pc, local, started, ret, log, query>>

\* connect(): the client is set, is_running is set and a daemon thread running
\* simulate_digest_processing is started
Connect(t) ==
    /\ ctl.pc = "idle"
    /\ ctl.threads[t] = "unstarted"
    /\ ctl' = [ctl EXCEPT !.client = TRUE, !.is_running = TRUE,
                          !.threads[t] = "running",
                          !.logged = @ \cup {"Connected to switch"}]
    /\ UNCHANGED ctl_frame

\* start_monitoring(), lines 126-131: a daemon thread running periodic_cleanup is
\* started and the polling loop is reached
StartMonitoring ==
    /\ ctl.pc = "idle"
    /\ ctl.threads[CleanupThread] = "unstarted"
    /\ ctl' = [ctl EXCEPT !.pc = "while", !.threads[CleanupThread] = "running"]
    /\ UNCHANGED ctl_frame

\* line 133, `while self.is_running:', and lines 135-138 of an iteration:
\* poll_flow_counters and log_current_stats change nothing; with is_running False
\* the loop ends and start_monitoring returns
While ==
    /\ ctl.pc = "while"
    /\ ctl' = [ctl EXCEPT !.pc = IF ctl.is_running THEN "sleep" ELSE "idle"]
    /\ UNCHANGED ctl_frame

\* line 140, time.sleep(5), and lines 142-144: a KeyboardInterrupt raised in the
\* sleep is caught, is_running is cleared and start_monitoring returns
Sleep(interrupt) ==
    /\ ctl.pc = "sleep"
    /\ ctl.sleeps < MaxSleeps
    /\ ctl' = IF interrupt
              THEN [ctl EXCEPT !.pc = "idle", !.is_running = FALSE, !.sleeps = @ + 1,
                               !.logged = @ \cup {"Monitoring stopped by user"}]
              ELSE [ctl EXCEPT !.pc = "while", !.sleeps = @ + 1]
    /\ UNCHANGED ctl_frame

\* disconnect(), lines 153-162: is_running and the client are cleared;
\* close_connections() is called when the module's db_manager is set.  No thread
\* is joined
Disconnect ==
    /\ ctl.pc = "idle"
    /\ ctl' = [ctl EXCEPT !.client = FALSE, !.is_running = FALSE,
                          !.logged = @ \cup (IF ctl.client THEN {"Disconnecting from switch"}
                                             ELSE {})
                                       \cup {"Disconnected from switch"}]
    /\ IF db_manager /\ postgres_conn \in {"ok", "aborted"}
       THEN postgres_conn' = "closed" /\ work' = table
       ELSE UNCHANGED <<postgres_conn, work>>
    /\ UNCHANGED <<now, table, cache_vars, active_flows, pc, local, started, ret, log, query>>

\* main(), lines 335-340: after disconnect() main returns and the interpreter
\* ends; the threads are daemon threads (lines 63 and 130) and end with it,
\* wherever they are.  The server drops the session and its open transaction
Exit ==
    /\ ctl.pc = "idle"
    /\ "Disconnected from switch" \in ctl.logged
    /\ ctl' = [ctl EXCEPT !.pc = "exited"]
    /\ work' = table
    /\ UNCHANGED <<now, postgres_conn, table, cache_vars, active_flows, pc, local,
                   started, ret, log, query>>

\* a loop of a thread finds is_running False and the thread ends
ThreadStop(t) ==
    /\ Alive
    /\ ctl.threads[t] = "running"
    /\ pc[t] = "idle"
    /\ ~ctl.is_running
    /\ ctl' = [ctl EXCEPT !.threads[t] = "stopped"]
    /\ UNCHANGED ctl_frame

----------------------------------------------------------------------------
(* Specifications *)

\* Spec: the threads of the controller interleave statement by statement.  Two
\* digest threads (connect() called twice) report the flows' digests; Redis answers
Next ==
    \/ \E t \in DigestThreads, x \in ThreadInputs(now) : Begin(t, x)
    \/ \E t \in DigestThreads : Select(t)
    \/ \E t \in DigestThreads : Write(t)
    \/ \E t \in DigestThreads : Commit(t)
    \/ \E t \in DigestThreads : Rollback(t)
    \/ \E t \in DigestThreads : HSet(t, TRUE)
    \/ \E t \in DigestThreads : Expire(t, TRUE)
    \/ \E t \in DigestThreads : SAdd(t, TRUE)
    \/ \E t \in DigestThreads : HIncrPackets(t, TRUE)
    \/ \E t \in DigestThreads : HIncrBytes(t, TRUE)
    \/ \E t \in DigestThreads : HSetLastUpdate(t, TRUE)
    \/ SweepBegin
    \/ Scan
    \/ SweepDel
    \/ SweepUpdate(FALSE)
    \/ SweepCommit
    \/ Tick
    \/ ConnectionLost

Spec == Init /\ [][Next]_vars

\* SpecSeq: one call at a time.  The single digest thread of one connect() and the
\* cleanup thread each run a call to its end before the other starts one; the
\* caller passes any input, and any Redis command may go unanswered
OthersIdle(t) == \A u \in Threads \ {t} : pc[u] = "idle"

NextSeq ==
    \/ \E x \in Inputs(now) : OthersIdle("d1") /\ Begin("d1", x)
    \/ Select("d1")
    \/ Write("d1")
    \/ Commit("d1")
    \/ Rollback("d1")
    \/ \E answers \in BOOLEAN : HSet("d1", answers)
    \/ \E answers \in BOOLEAN : Expire("d1", answers)
    \/ \E answers \in BOOLEAN : SAdd("d1", answers)
    \/ \E answers \in BOOLEAN : HIncrPackets("d1", answers)
    \/ \E answers \in BOOLEAN : HIncrBytes("d1", answers)
    \/ \E answers \in BOOLEAN : HSetLastUpdate("d1", answers)
    \/ OthersIdle(CleanupThread) /\ SweepBegin
    \/ Scan
    \/ SweepDel
    \/ \E fails \in BOOLEAN : SweepUpdate(fails)
    \/ SweepCommit
    \/ Tick
    \/ ConnectionLost

SpecSeq == Init /\ [][NextSeq]_vars

\* SpecQuery: the API thread runs the queries of the aggregator while the digest
\* thread of one connect() and the cleanup thread run their calls; Redis answers
\* the collector, and may fail the aggregator
NextQuery ==
    \/ \E x \in ThreadInputs(now) : Begin("d1", x)
    \/ Select("d1")
    \/ Write("d1")
    \/ Commit("d1")
    \/ Rollback("d1")
    \/ HSet("d1", TRUE)
    \/ Expire("d1", TRUE)
    \/ SAdd("d1", TRUE)
    \/ HIncrPackets("d1", TRUE)
    \/ HIncrBytes("d1", TRUE)
    \/ HSetLastUpdate("d1", TRUE)
    \/ SweepBegin
    \/ Scan
    \/ SweepDel
    \/ SweepUpdate(FALSE)
    \/ SweepCommit
    \/ Tick
    \/ ConnectionLost
    \/ \E name \in QueryNames, limit \in Limits :
            (name = "top_flows" \/ limit = 0) /\ QueryStart(name, limit)
    \/ \E answers \in BOOLEAN : HGetAll(answers)
    \/ \E answers \in BOOLEAN : SCard(answers)
    \/ \E fails \in BOOLEAN : TopFlowsExecute(fails)
    \/ \E fails \in BOOLEAN : DistributionExecute(fails)

SpecQuery == Init /\ [][NextQuery]_vars

\* SpecCtl: the controller's life.  The main thread calls connect(),
\* start_monitoring() and disconnect() and ends the process; the digest thread and
\* the cleanup thread run their loops while is_running is set; Redis answers,
\* and the record store may go away
NextCtl ==
    \/ Connect("d1")
    \/ StartMonitoring
    \/ While
    \/ \E interrupt \in BOOLEAN : Sleep(interrupt)
    \/ Disconnect
    \/ Exit
    \/ \E t \in {"d1", CleanupThread} : ThreadStop(t)
    \/ \E x \in ThreadInputs(now) : Running("d1") /\ Begin("d1", x)
    \/ Alive /\ Select("d1")
    \/ Alive /\ Write("d1")
    \/ Alive /\ Commit("d1")
    \/ Alive /\ Rollback("d1")
    \/ Alive /\ HSet("d1", TRUE)
    \/ Alive /\ Expire("d1", TRUE)
    \/ Alive /\ SAdd("d1", TRUE)
    \/ Alive /\ HIncrPackets("d1", TRUE)
    \/ Alive /\ HIncrBytes("d1", TRUE)
    \/ Alive /\ HSetLastUpdate("d1", TRUE)
    \/ Running(CleanupThread) /\ SweepBegin
    \/ Alive /\ Scan
    \/ Alive /\ SweepDel
    \/ Alive /\ SweepUpdate(FALSE)
    \/ Alive /\ SweepCommit
    \/ Alive /\ Tick
    \/ Alive /\ ConnectionLost

SpecCtl == Init /\ [][NextCtl]_vars

\* SpecConnect: connect() and disconnect() called any number of times before
\* start_monitoring().  Every connect() starts one more digest thread, up to the
\* two of the model; Redis answers, and the record store may go away
NextConnect ==
    \/ Connect("d1")
    \/ ctl.threads["d1"] # "unstarted" /\ Connect("d2")
    \/ Disconnect
    \/ \E t \in DigestThreads : ThreadStop(t)
    \/ \E t \in DigestThreads, x \in ThreadInputs(now) : Running(t) /\ Begin(t, x)
    \/ \E t \in DigestThreads : Select(t)
    \/ \E t \in DigestThreads : Write(t)
    \/ \E t \in DigestThreads : Commit(t)
    \/ \E t \in DigestThreads : Rollback(t)
    \/ \E t \in DigestThreads : HSet(t, TRUE)
    \/ \E t \in DigestThreads : Expire(t, TRUE)
    \/ \E t \in DigestThreads : SAdd(t, TRUE)
    \/ \E t \in DigestThreads : HIncrPackets(t, TRUE)
    \/ \E t \in DigestThreads : HIncrBytes(t, TRUE)
    \/ \E t \in DigestThreads : HSetLastUpdate(t, TRUE)
    \/ ConnectionLost

SpecConnect == Init /\ [][NextConnect]_vars

\* SpecProto: the digest thread stores flows of any protocol, one call at a
\* time, and the API thread asks for the protocol distribution; Redis answers,
\* and the server may fail the query
NextProto ==
    \/ \E x \in ProtoInputs(now) : OthersIdle("d1") /\ Begin("d1", x)
    \/ Select("d1")
    \/ Write("d1")
    \/ Commit("d1")
    \/ Rollback("d1")
    \/ HSet("d1", TRUE)
    \/ Expire("d1", TRUE)
    \/ SAdd("d1", TRUE)
    \/ HIncrPackets("d1", TRUE)
    \/ HIncrBytes("d1", TRUE)
    \/ HSetLastUpdate("d1", TRUE)
    \/ QueryStart("protocol_distribution", 0)
    \/ \E fails \in BOOLEAN : DistributionExecute(fails)

SpecProto == Init /\ [][NextProto]_vars

\* SpecAddr: the digest thread stores flows with any source address, one call
\* at a time; Redis answers, and the record store may go away
NextAddr ==
    \/ \E x \in AddrInputs(now) : OthersIdle("d1") /\ Begin("d1", x)
    \/ Select("d1")
    \/ Write("d1")
    \/ Commit("d1")
    \/ Rollback("d1")
    \/ HSet("d1", TRUE)
    \/ Expire("d1", TRUE)
    \/ SAdd("d1", TRUE)
    \/ HIncrPackets("d1", TRUE)
    \/ HIncrBytes("d1", TRUE)
    \/ HSetLastUpdate("d1", TRUE)
    \/ ConnectionLost

SpecAddr == Init /\ [][NextAddr]_vars

\* the steps of a query that wait for no store: the handle is None or a closed
\* connection, and the call raises in the client
QueryLocal ==
    \/ /\ redis_client = "none"
       /\ \E answers \in BOOLEAN : HGetAll(answers) \/ SCard(answers)
    \/ /\ postgres_conn \in {"none", "closed"}
       /\ \E fails \in BOOLEAN : TopFlowsExecute(fails) \/ DistributionExecute(fails)

\* the steps of the digest thread and of the cleanup thread, which
\* periodic_cleanup starts again every minute (controller.py lines 291-295)
ThreadSteps ==
    \/ Select("d1") \/ Write("d1") \/ Commit("d1") \/ Rollback("d1")
    \/ HSet("d1", TRUE) \/ Expire("d1", TRUE) \/ SAdd("d1", TRUE)
    \/ HIncrPackets("d1", TRUE) \/ HIncrBytes("d1", TRUE) \/ HSetLastUpdate("d1", TRUE)
    \/ SweepBegin \/ Scan \/ SweepDel \/ SweepUpdate(FALSE) \/ SweepCommit

\* SpecLive: SpecQuery with every thread scheduled fairly.  A step that waits for
\* the answer of a store is taken when the store answers: psycopg2.connect (lines
\* 33-40) and redis.Redis (lines 44-48) are given no timeout, and no step of a
\* query gives up waiting
SpecLive ==
    Init /\ [][NextQuery]_vars /\ WF_vars(QueryLocal) /\ WF_vars(ThreadSteps)

----------------------------------------------------------------------------
(* Properties *)

Last(q) == q[Len(q)]

\* the call of digest thread t takes this step
Steps(t) == pc'[t] # pc[t]

\* the input of the call thread t is in, after the step
InputOf(t) == IF log' # log THEN Last(log').x ELSE local'[t].digest_data

\* a call ends in this step
Returns == log' # log

\* the three counters current_statistics reports
Counters(stats) == <<stats.active_flows, stats.total_packets, stats.total_bytes>>

\* log entry e is a complete digest for flow f whose upsert was committed
StoredFor(e, f) == Complete(e.x) /\ e.x.d.flow_id = f /\ e.stored

\* two calls in a row, the second ending now, for the same flow and e2 later than e1
TwoInARow(f) ==
    /\ Len(log') >= 2
    /\ StoredFor(log'[Len(log') - 1], f)
    /\ StoredFor(Last(log'), f)
    /\ Last(log').x.d.timestamp > log'[Len(log') - 1].x.d.timestamp

\* C1 as stated: when the second of two valid events for one flow id, processed
\* one after the other with the record store available, has been processed, the
\* record store holds exactly one row for that flow id and the row is active.
C1_TwoEventsOneActiveRow ==
    [][\A f \in FlowIds :
          Returns /\ TwoInARow(f) =>
              /\ Cardinality(RowsOf(table', Str(f))) = 1
              /\ \A i \in RowsOf(table', Str(f)) : table'[i].status = "active"]_vars

\* C1 amended: when the second of two valid events for one flow id, processed one
\* after the other with the record store available, has been processed, the record
\* store holds exactly one row for that flow id; the row is active unless a sweep
\* demoted the flow before the second event (the row is then inactive, with its
\* end time).
C1_TwoEventsOneRow ==
    [][\A f \in FlowIds :
          Returns /\ TwoInARow(f) =>
              /\ Cardinality(RowsOf(table', Str(f))) = 1
              /\ \A i \in RowsOf(table', Str(f)) :
                    table'[i].status =
                        (IF Last(log').before = "inactive" THEN "inactive" ELSE "active")]_vars

\* C1 witness: two stored events for flow 1 in a row, the second later than the first
C1_Witness ==
    /\ Len(log) = 2
    /\ StoredFor(log[1], 1) /\ StoredFor(log[2], 1)
    /\ log[2].x.d.timestamp > log[1].x.d.timestamp
    /\ log[2].before = "active"
    /\ pc["d1"] = "idle"

\* C2 as stated: under every interleaving of concurrent process_event calls, at
\* most one record exists for a flow id.
C2_AtMostOneRecordPerFlow ==
    \A f \in FlowIds : Cardinality(RowsOf(table, Str(f))) <= 1

\* C3: a committed record that is inactive stays inactive in every step, whatever
\* process_event and the sweep do.
C3_StatusNeverReactivated ==
    [][\A i \in DOMAIN table :
          table[i].status = "inactive" =>
              i \in DOMAIN table' /\ table'[i].status = "inactive"]_vars

\* C3 witness: an event for a flow whose record was already inactive has been
\* processed and its upsert committed
C3_Witness ==
    \E k \in DOMAIN log :
        /\ log[k].before = "inactive"
        /\ log[k].stored
        /\ StatusOf(table, Str(log[k].x.d.flow_id)) = "inactive"

\* C4 as stated: no step of a process_event call whose event lacks flow id, source
\* address, destination address or protocol changes the tracker, the record store
\* or the cache.
C4_MalformedNoSideEffects ==
    [][\A t \in DigestThreads :
          Steps(t) /\ InputOf(t).mapping /\ ~WellFormed(InputOf(t)) =>
              UNCHANGED <<active_flows, table, work, flow_hash, active_set, global_stats>>]_vars

\* C5 as stated: the call on a malformed event returns MalformedEvent, which the
\* caller can tell from the acknowledgement of an accepted event.
C5_MalformedEventReturned ==
    \A t \in DigestThreads :
        (log # <<>> /\ ret[t] # "no call" /\ ~WellFormed(Last(log).x)) =>
            ret[t] = "MalformedEvent"

\* C6: no step of a process_event call whose event lacks flow_id changes
\* active_flows, total_packets or total_bytes as current_statistics reports them.
C6_NoFlowIdKeepsStatistics ==
    [][\A t \in DigestThreads :
          Steps(t) /\ InputOf(t).mapping /\ ~Has(InputOf(t).d, "flow_id") =>
              \A answers \in BOOLEAN :
                  Counters(get_current_statistics(answers))' =
                      Counters(get_current_statistics(answers))]_vars

\* C6 witness: a call on an event without flow_id has ended with the counters
\* of an earlier event in the cache
C6_Witness ==
    /\ Len(log) = 2
    /\ log[1].cached
    /\ log[2].x.mapping /\ ~Has(log[2].x.d, "flow_id") /\ Has(log[2].x.d, "packet_count")
    /\ get_current_statistics(TRUE).total_packets > 0

\* C7: whatever the input and the state of the stores, a call of process_event
\* gives its caller None and no exception.
C7_NoExceptionEscapes ==
    \A t \in DigestThreads : ret[t] \in {"no call", "None"}

\* C7 witness: a call has ended in which the rollback of a failed upsert raised
\* on the closed connection
C7_Witness ==
    \E k \in DOMAIN log :
        /\ Complete(log[k].x)
        /\ log[k].raised = "InterfaceError"
        /\ ret["d1"] = "None"

RECURSIVE SumOver(_, _)
\* the sum of fn[x] over the finite set S
SumOver(S, fn) ==
    IF S = {} THEN 0
    ELSE LET x == CHOOSE y \in S : TRUE IN fn[x] + SumOver(S \ {x}, fn)

\* the flows the ended calls reported, and the latest report of each
Reported == { log[k].x.d.flow_id : k \in DOMAIN log }
LatestOf(f) ==
    log[CHOOSE k \in DOMAIN log :
            /\ log[k].x.d.flow_id = f
            /\ \A j \in DOMAIN log : log[j].x.d.flow_id = f => j <= k].x.d

\* every call so far was a complete digest that went through both stores
AllAccepted == \A k \in DOMAIN log : Complete(log[k].x) /\ log[k].stored /\ log[k].cached

\* C8 as stated: after any sequence of valid events total_packets is the sum over
\* the flow ids of each flow's latest cumulative packet_count, and total_bytes
\* likewise (GlobalStats receives deltas).
C8_GlobalStatsAreDeltas ==
    (AllAccepted /\ pc["d1"] = "idle" /\ pc["d2"] = "idle") =>
        /\ Get(global_stats, "total_packets", 0) =
              SumOver(Reported, [f \in Reported |-> LatestOf(f).packet_count])
        /\ Get(global_stats, "total_bytes", 0) =
              SumOver(Reported, [f \in Reported |-> LatestOf(f).byte_count])

\* C9: no step lowers total_packets or total_bytes.
C9_CountersNeverDecrease ==
    [][/\ Get(global_stats', "total_packets", 0) >= Get(global_stats, "total_packets", 0)
       /\ Get(global_stats', "total_bytes", 0) >= Get(global_stats, "total_bytes", 0)]_vars

\* C9 witness: two calls of different threads have both added to the counters
C9_Witness ==
    /\ Len(log) = 2
    /\ log[1].cached /\ log[2].cached
    /\ ret["d1"] = "None" /\ ret["d2"] = "None"
    /\ Get(global_stats, "total_packets", 0) =
            log[1].x.d.packet_count + log[2].x.d.packet_count

\* exactly one call has been made, on a complete digest, and both stores took it
OnlyCall == started = 1 /\ Len(log) = 1 /\ Complete(log[1].x) /\ log[1].stored /\ log[1].cached

\* C10: after the only call so far, a valid event with packet_count p and
\* byte_count b processed from the empty cache with both stores available,
\* current_statistics returns active_flows = 1, total_packets = p, total_bytes = b.
C10_FirstEventStatistics ==
    OnlyCall =>
        Counters(get_current_statistics(TRUE)) =
            <<1, log[1].x.d.packet_count, log[1].x.d.byte_count>>

\* C10 witness: Scenario A, p = 10 and b = 640
C10_Witness ==
    /\ OnlyCall
    /\ log[1].x.d.packet_count = 10
    /\ log[1].x.d.byte_count = 640
    /\ get_current_statistics(TRUE).total_bytes = 640

\* the sweep takes flow f out of the tracker in this step
SweepRemoves(f) == DictHas(active_flows, f) /\ ~DictHas(active_flows', f)

\* C11 as stated: a flow id the sweep finds idle for more than 300s is out of the
\* active set once the sweep has removed it, and the active set never holds a flow
\* id whose cache entry has expired.
C11_ActiveSetPruned ==
    [][/\ \A f \in FlowIds : SweepRemoves(f) => Str(f) \notin active_set'
       /\ active_set' \subseteq DOMAIN flow_hash']_vars

\* a sweep ends in this step: the loop over expired_flows is done
SweepEnds == pc[CleanupThread] = "del" /\ pc'[CleanupThread] = "idle"

\* after the step: every record of flow id k is inactive with an end time, and
\* neither top_flows (any limit, any order) nor protocol_distribution counts it
Demoted(k) ==
    /\ \A i \in RowsOf(table', Str(k)) :
            table'[i].status = "inactive" /\ table'[i].flow_end_time # NULL
    /\ \A limit \in {1, 2, 3} : \A r \in get_top_flows(limit, FALSE)' :
            \A j \in DOMAIN r : r[j].flow_id # Str(k)
    /\ calculate_protocol_distribution(FALSE)' =
            Distribution(SelectSeq(work', LAMBDA row : row.flow_id # Str(k)))

\* the flow ids the ending sweep found idle for more than 300s
ExpiredInSweep ==
    { local[CleanupThread].expired[j] : j \in DOMAIN local[CleanupThread].expired }

Refreshed(f) ==
    /\ pc[CleanupThread] # "idle"
    /\ DictHas(active_flows, f)
    /\ ~IsExpired(local[CleanupThread].current_time, DictGet(active_flows, f))

\* C13 as stated: under every interleaving, no step of a sweep removes from the
\* tracker, or demotes the record of, a flow whose last-seen time a process_event
\* refreshed while the sweep was in progress.
C13_SweepSkipsRefreshed ==
    [][\A f \in FlowIds :
          Refreshed(f) =>
              /\ DictHas(active_flows', f)
              /\ DictGet(active_flows', f) >= DictGet(active_flows, f)
              /\ StatusOf(work', Str(f)) = "inactive" =>
                        StatusOf(work, Str(f)) = "inactive"]_vars

\* the errors the ending sweep has logged
SweepErrors == local[CleanupThread].errors

\* C14 as stated: when a sweep ends in which the record store failed the update
\* of one flow id and the connection stayed open, every other flow id the sweep
\* found expired has been demoted: each of its records is inactive.
C14_SweepFailureIsolated ==
    [][SweepEnds /\ postgres_conn' # "closed" =>
          \A k \in ExpiredInSweep :
              (\A j \in DOMAIN SweepErrors :
                    SweepErrors[j].exc = "OperationalError" => SweepErrors[j].flow_id # k)
              => \A i \in RowsOf(table', Str(k)) : table'[i].status = "inactive"]_vars

\* protocol_distribution returns in this step
DistributionReturns ==
    /\ query.name = "protocol_distribution"
    /\ query.pc = "execute" /\ query'.pc = "idle"

\* the record store answers the query of this step: the connection is open, in no
\* failed transaction, and the server carries out the SELECT
Answered == postgres_conn = "ok" /\ postgres_conn' = "ok"

\* d is the distribution of the active records among rows: one entry per protocol
\* of an active record, the counts summing to the number of active records, each
\* percentage count/total x 100, the percentages summing to 100
DistributionOf(d, rows) ==
    LET act == ActiveRows(rows)
        total == Cardinality(act)
    IN /\ (DOMAIN d = {}) <=> (act = {})
       /\ act # {} =>
            /\ DOMAIN d = { get_protocol_name(rows[i].protocol) : i \in act }
            /\ \A n \in DOMAIN d :
                    /\ d[n].count =
                          Cardinality({ i \in act : get_protocol_name(rows[i].protocol) = n })
                    /\ d[n].percentage.num * total = d[n].count * 100 * d[n].percentage.den
            /\ SumOver(DOMAIN d, [n \in DOMAIN d |-> d[n].count]) = total
            /\ \A n \in DOMAIN d : d[n].percentage.den = total
            /\ SumOver(DOMAIN d, [n \in DOMAIN d |-> d[n].percentage.num]) = 100 * total

\* C15 as stated: whenever protocol_distribution returns, its result is the empty
\* mapping exactly when there is no active record, and for a nonempty active set
\* the counts sum to the number of active records, each percentage is
\* count/total x 100 and the percentages sum to 100.
C15_Distribution ==
    [][DistributionReturns => DistributionOf(query'.result, work)]_vars

\* C15 amended: the same whenever the record store answers the query; when it
\* does not (no connection, a closed connection, a failed transaction or a failed
\* statement) the result is the empty mapping, whatever the active records.
C15_DistributionWhenAnswered ==
    [][DistributionReturns =>
          IF Answered THEN DistributionOf(query'.result, work)
          ELSE DOMAIN query'.result = {}]_vars

\* C15 witness: protocol_distribution has returned one TCP and one UDP record,
\* 50 percent each
C15_Witness ==
    /\ query.name = "protocol_distribution" /\ query.pc = "idle"
    /\ DOMAIN query.result = {"TCP", "UDP"}
    /\ query.result["TCP"] = [count |-> 1, percentage |-> [num |-> 100, den |-> 2]]
    /\ query.result["UDP"].count = 1

\* top_flows returns in this step, called with a limit that is a count
TopFlowsReturns ==
    /\ query.name = "top_flows" /\ query.limit >= 0
    /\ query.pc = "execute" /\ query'.pc = "idle"

\* r holds only active records of rows, at most limit of them, in non-increasing
\* order of creation time, and they are the limit most recently created ones
TopOf(r, rows, limit) ==
    LET act == ActiveRows(rows) IN
    /\ \A j \in DOMAIN r : r[j].status = "active" /\ \E i \in act : rows[i] = r[j]
    /\ Len(r) <= limit
    /\ \A j, k \in DOMAIN r : j < k => r[j].created_at >= r[k].created_at /\ r[j] # r[k]
    /\ Len(r) = (IF limit < Cardinality(act) THEN limit ELSE Cardinality(act))
    /\ \A i \in act : (\A j \in DOMAIN r : r[j] # rows[i]) =>
            \A j \in DOMAIN r : rows[i].created_at <= r[j].created_at

\* C16 as stated: whenever top_flows(limit) returns, its result holds only active
\* records, at most limit of them, in non-increasing order of creation time, and
\* they are the limit most recently created active records.
C16_TopFlows ==
    [][TopFlowsReturns => TopOf(query'.result, work, query.limit)]_vars

\* C16 amended: the same whenever the record store answers the query; when it
\* does not, the result is the empty list, whatever the active records.
C16_TopFlowsWhenAnswered ==
    [][TopFlowsReturns =>
          IF Answered THEN TopOf(query'.result, work, query.limit)
          ELSE query'.result = EmptyList]_vars

\* C16 witness: top_flows(1) has returned the newer of two active records
C16_Witness ==
    /\ query.name = "top_flows" /\ query.pc = "idle" /\ query.limit = 1
    /\ Len(query.result) = 1
    /\ Cardinality(ActiveRows(table)) = 2
    /\ \E i \in ActiveRows(table) : table[i].created_at < query.result[1].created_at

\* the place of a flow id in ascending order (the ids of the model have one digit)
IdOrder(fid) == CHOOSE k \in 0..9 : Str(k) = fid

\* C17 as stated: whenever top_flows returns, records of equal creation time come
\* in ascending order of flow id, and the result is the only value the query can
\* return for the contents of the record store and the limit.
C17_TiesByFlowId ==
    [][TopFlowsReturns /\ Answered =>
          /\ \A j, k \in DOMAIN query'.result :
                (j < k /\ query'.result[j].created_at = query'.result[k].created_at) =>
                    IdOrder(query'.result[j].flow_id) < IdOrder(query'.result[k].flow_id)
          /\ get_top_flows(query.limit, FALSE) = {query'.result}]_vars

\* current_statistics returns in this step
StatisticsReturns ==
    /\ query.name = "current_statistics"
    /\ query.pc \in {"hgetall", "scard"} /\ query'.pc = "idle"

\* the step is the handler's: a cache read failed (there is no client, or the
\* command was not answered or not parsable), and not the return after scard
CacheReadFailed ==
    \/ redis_client = "none"
    \/ query.pc = "hgetall"
    \/ query'.result.switches_connected = 0

\* C18: whenever current_statistics returns after a cache read failed, its result
\* is active_flows = 0, total_packets = 0, total_bytes = 0 with last_update the
\* time of the call; it returns a result in every case.
C18_StatisticsFallback ==
    [][StatisticsReturns =>
          /\ DOMAIN query'.result =
                {"active_flows", "total_packets", "total_bytes", "last_update",
                 "switches_connected"}
          /\ CacheReadFailed =>
                /\ Counters(query'.result) = <<0, 0, 0>>
                /\ query'.result.last_update = now]_vars

\* C18 witness: current_statistics has returned the zeroed result, stamped with a
\* call time later than the last update, while the cache holds counters
C18_Witness ==
    /\ query.name = "current_statistics" /\ query.pc = "idle"
    /\ redis_client = "ok"
    /\ Get(global_stats, "total_packets", 0) > 0
    /\ Counters(query.result) = <<0, 0, 0>>
    /\ query.result.last_update = now
    /\ now > Get(global_stats, "last_update", 0)

\* a query of the aggregator takes this step
QuerySteps == query' # query

\* C19 as stated: no step of current_statistics, top_flows or
\* protocol_distribution, whether it succeeds or falls back to its default,
\* changes the tracker, the record store (its rows, its connection and the state
\* of the connection's transaction) or the cache.
C19_QueriesChangeNothing ==
    [][QuerySteps =>
          UNCHANGED <<active_flows, postgres_conn, table, work,
                      redis_client, flow_hash, active_set, global_stats>>]_vars

\* C20 as stated: every query that has been started eventually returns, whether
\* or not the store it is waiting for ever answers.
C20_QueryReturns == (query.pc # "idle") ~> (query.pc = "idle")

\* the record store can be reached: there is a connection and it is open
StoreOpen == postgres_conn \in {"ok", "aborted"}

\* C21 as stated: no failure is sticky.  A process_flow_digest on a complete
\* digest whose SELECT is sent while the record store can be reached goes on to
\* its INSERT or UPDATE, and a sweep step whose UPDATE is sent while the record
\* store can be reached is carried out unless the server fails that very
\* statement: neither fails because of a failure before it.
C21_NoStickyFailure ==
    [][/\ (/\ pc["d1"] = "select" /\ Steps("d1")
           /\ StoreOpen
           /\ Complete(local["d1"].digest_data)) => pc'["d1"] = "write"
       /\ (/\ pc[CleanupThread] = "demote" /\ Steps(CleanupThread)
           /\ StoreOpen)
             => \/ pc'[CleanupThread] = "sweep_commit"
                \/ Last(local'[CleanupThread].errors).exc = "OperationalError"]_vars

\* the call before the last ended one left flow f in the cache and wrote no
\* record of it, and there was none when the last call began
CachedUnstored(f, q) ==
    /\ Len(q) >= 2
    /\ LET e == q[Len(q) - 1] IN
        /\ e.x.mapping /\ Get(e.x.d, "flow_id", None) = f
        /\ e.cached /\ ~e.stored
    /\ Last(q).before = "none"

InFlight(t) == pc[t] # "idle"

\* what the controller logs at level info on its way through connect,
\* start_monitoring and disconnect
InfoMessages ==
    {"Connected to switch", "Monitoring stopped by user",
     "Disconnecting from switch", "Disconnected from switch"}

\* C23 as stated: when the process has ended after disconnect(), every call of
\* process_flow_digest or cleanup_expired_flows that was in flight has run to its
\* end, or the controller has logged a warning about abandoning it.
C23_ShutdownDrains ==
    ~Alive => \/ \A t \in Threads : ~InFlight(t)
              \/ ctl.logged \ InfoMessages # {}

\* C24 as stated: when start_monitoring, called on a newly constructed controller
\* (connect() has not been called), returns, the polling loop has reached its
\* sleep exactly once and is_running is False.
C24_PollsOnceThenInterrupt ==
    [][(/\ ctl.pc \in {"while", "sleep"} /\ ctl'.pc = "idle"
        /\ ctl.threads["d1"] = "unstarted")
          => ctl'.sleeps = 1 /\ ~ctl'.is_running]_vars

\* C25: when every call so far was a complete digest that both stores took,
\* total_packets is the sum of the packet_count fields of all those digests and
\* total_bytes the sum of their byte_count fields, each digest counted in full.
C25_TotalsArePlainSum ==
    (AllAccepted /\ pc["d1"] = "idle" /\ pc["d2"] = "idle") =>
        /\ Get(global_stats, "total_packets", 0) =
              SumOver(DOMAIN log, [k \in DOMAIN log |-> log[k].x.d.packet_count])
        /\ Get(global_stats, "total_bytes", 0) =
              SumOver(DOMAIN log, [k \in DOMAIN log |-> log[k].x.d.byte_count])

\* C25 witness: two digests of the same flow have been processed and the totals
\* are the sums of their counts, more than the later digest reports
C25_Witness ==
    /\ AllAccepted /\ AllIdle /\ Len(log) = 2
    /\ log[1].x.d.flow_id = log[2].x.d.flow_id
    /\ Get(global_stats, "total_packets", 0) = log[1].x.d.packet_count + log[2].x.d.packet_count
    /\ Get(global_stats, "total_bytes", 0) = log[1].x.d.byte_count + log[2].x.d.byte_count
    /\ Get(global_stats, "total_packets", 0) > log[2].x.d.packet_count

\* the rows after differ from the rows before in the updated_at of flow fid's
\* rows and in nothing else
OnlyUpdatedAt(before, after, fid) ==
    /\ Len(after) = Len(before)
    /\ \A i \in DOMAIN before :
          after[i] = IF before[i].flow_id = fid
                     THEN [before[i] EXCEPT !.updated_at = after[i].updated_at]
                     ELSE before[i]

\* C26: a process_flow_digest for a flow that has a record changes that record's
\* updated_at and nothing else: the statement it sends and the commit that
\* follows leave the 5-tuple, the switch id, flow_start_time, flow_end_time and
\* the status of the flow's record as they were, and every other record as it was.
C26_RefreshTouchesUpdatedAt ==
    [][\A t \in DigestThreads :
          LET fid == Str(FlowIdOf(local[t].digest_data.d)) IN
          /\ (pc[t] = "write" /\ pc'[t] = "commit" /\ local[t].found)
                => OnlyUpdatedAt(work, work', fid)
          /\ (pc[t] = "commit" /\ pc'[t] = "hset" /\ local[t].found)
                => OnlyUpdatedAt(table, table', fid)]_vars

\* C26 witness: flow 1's record was written by its first digest; a digest of
\* flow 1 with another protocol and an earlier timestamp has been stored since,
\* and the record keeps its protocol and start time and shows a later updated_at
C26_Witness ==
    /\ AllIdle /\ Len(log) = 2
    /\ StoredFor(log[1], 1) /\ StoredFor(log[2], 1)
    /\ log[2].before = "active"
    /\ log[2].x.d.protocol # log[1].x.d.protocol
    /\ log[2].x.d.timestamp < log[1].x.d.timestamp
    /\ Len(table) = 1
    /\ table[1].protocol = log[1].x.d.protocol
    /\ table[1].flow_start_time = log[1].x.d.timestamp \div MICRO
    /\ table[1].updated_at > table[1].created_at

\* C27 as stated: a sweep removes a flow id from the tracker only after the
\* flow's record has been set to inactive: at the step that removes it the
\* record store shows no active record of the flow.
C27_DemotedBeforeRemoved ==
    [][\A f \in FlowIds :
          (pc[CleanupThread] = "del" /\ SweepRemoves(f))
             => StatusOf(table, Str(f)) # "active"]_vars

\* a step of thread t changes the cache
CacheWritten(t) ==
    /\ Steps(t)
    /\ <<flow_hash, active_set, global_stats>>' # <<flow_hash, active_set, global_stats>>

\* C28 as stated: a process_flow_digest on a complete digest whose upsert the
\* record store did not carry out writes nothing to the cache: no per-flow
\* entry, no member of the active set, no increment of global_stats.
C28_FailedUpsertLeavesCache ==
    [][\A t \in DigestThreads :
          (CacheWritten(t) /\ Complete(local[t].digest_data)) => local[t].stored]_vars

\* C29 as stated: when no call is in progress every per-flow cache entry has an
\* expiry, also after a call in which a cache command failed.
C29_EveryEntryExpires ==
    AllIdle => \A k \in DOMAIN flow_hash : flow_hash[k].expire_at # NoExpiry

\* the ended calls whose digest carries what the cache commands read
Countable ==
    { k \in DOMAIN log :
        log[k].x.mapping /\ {"flow_id", "packet_count", "byte_count"} \subseteq DOMAIN log[k].x.d }

\* C30 as stated: when no call is in progress the cache holds whole
\* contributions only: there is a set of processed events such that
\* total_packets is the sum of their packet counts, total_bytes the sum of their
\* byte counts, and the flow id of each is in the active set.
C30_WholeContributions ==
    AllIdle =>
        \E S \in SUBSET Countable :
            /\ Get(global_stats, "total_packets", 0) =
                  SumOver(S, [k \in S |-> log[k].x.d.packet_count])
            /\ Get(global_stats, "total_bytes", 0) =
                  SumOver(S, [k \in S |-> log[k].x.d.byte_count])
            /\ \A k \in S : Str(log[k].x.d.flow_id) \in active_set

\* the rows of flow fid among rows, in order
RowsSeq(rows, fid) == SelectSeq(rows, LAMBDA r : r.flow_id = fid)

\* the flow ids other than fid keep their committed rows and their pending rows
OthersKept(fid) ==
    \A g \in FlowIds :
        Str(g) # fid =>
            /\ RowsSeq(table', Str(g)) = RowsSeq(table, Str(g))
            /\ RowsSeq(work', Str(g)) = RowsSeq(work, Str(g))

\* C31 as stated: a commit or rollback issued while handling one flow id leaves
\* the writes of every other flow id as they are: it commits none of their
\* pending rows and discards none.
C31_IndependentCommits ==
    [][/\ \A t \in DigestThreads :
            (pc[t] \in {"commit", "rollback"} /\ Steps(t))
               => OthersKept(Str(FlowIdOf(local[t].digest_data.d)))
       /\ (pc[CleanupThread] = "sweep_commit" /\ Steps(CleanupThread))
               => OthersKept(Str(local[CleanupThread].expired[local[CleanupThread].it_pos]))
      ]_vars

\* a call of cleanup_expired_flows ends at this step
SweepOver == pc[CleanupThread] # "idle" /\ pc'[CleanupThread] = "idle"

\* C32 as stated: a sweep that runs while the digest threads add or refresh
\* tracker entries completes: when it ends, no flow id that was expired at its
\* start and was not refreshed since is left in the tracker.
C32_SweepCompletes ==
    [][SweepOver =>
          \A i \in DOMAIN active_flows' :
              ~IsExpired(local[CleanupThread].current_time, active_flows'[i].last_seen)]_vars

\* C33 as stated: when the record store could not be reached at set-up, a
\* process_flow_digest on a complete digest still sends every cache command.
C33_CacheWithoutRecordStore ==
    \A k \in DOMAIN log :
        (postgres_conn = "none" /\ Complete(log[k].x)) => log[k].cached

\* C34: a sweep removes a flow id from the tracker only when the sweep's time
\* minus the flow's last-seen time is strictly greater than 300s, and no step of
\* a sweep changes a record of a flow id that is in the tracker: a flow last seen
\* 300s or less before the sweep keeps its entry and its record.
C34_StrictlyOlderThanTimeout ==
    [][/\ \A f \in FlowIds :
            (pc[CleanupThread] = "del" /\ SweepRemoves(f))
               => local[CleanupThread].current_time - DictGet(active_flows, f) > TIMEOUT
       /\ Steps(CleanupThread) =>
            \A g \in FlowIds :
                DictHas(active_flows, g) =>
                    /\ RowsSeq(table', Str(g)) = RowsSeq(table, Str(g))
                    /\ RowsSeq(work', Str(g)) = RowsSeq(work, Str(g))]_vars

\* C34 witness: a sweep at 300 has scanned the tracker; flow 1, last seen at 0,
\* is not among its expired flows, keeps its entry and has its record active
C34_Witness ==
    /\ pc[CleanupThread] = "del"
    /\ local[CleanupThread].current_time = TIMEOUT
    /\ local[CleanupThread].expired = <<>>
    /\ DictHas(active_flows, 1) /\ DictGet(active_flows, 1) = 0
    /\ StatusOf(table, Str(1)) = "active"

\* the end time of row r is null exactly when r is active
EndTimeMatchesStatus(r) == (r.flow_end_time = NULL) <=> (r.status = "active")

\* C35: in every state every record, committed or pending in the connection's
\* transaction, has a null flow_end_time if and only if its status is active.
C35_EndTimeIffInactive ==
    /\ \A i \in DOMAIN table : EndTimeMatchesStatus(table[i])
    /\ \A i \in DOMAIN work : EndTimeMatchesStatus(work[i])

\* C35 witness: the table holds a demoted record with its end time and an active
\* record without one
C35_Witness ==
    /\ \E i \in DOMAIN table :
          table[i].status = "inactive" /\ table[i].flow_end_time # NULL
    /\ \E i \in DOMAIN table :
          table[i].status = "active" /\ table[i].flow_end_time = NULL

\* C36 as stated: with no store failure (the connection is open and every call
\* was taken by both stores), when no call is in progress every flow id that is
\* in the active set and has an unexpired cache entry has an active record.
C36_StoresAgree ==
    (AllIdle /\ postgres_conn = "ok" /\ AllAccepted) =>
        \A f \in FlowIds :
            (Str(f) \in active_set /\ Str(f) \in DOMAIN flow_hash)
               => StatusOf(table, Str(f)) = "active"

\* the step is a call of disconnect() that changes the controller: of the main
\* thread's steps only disconnect() leaves its position, the threads and the
\* count of sleeps as they are
Disconnects ==
    /\ ctl' # ctl
    /\ ctl'.pc = ctl.pc /\ ctl'.threads = ctl.threads /\ ctl'.sleeps = ctl.sleeps

\* a call of process_flow_digest or of cleanup_expired_flows starts at this step
CallStarts ==
    \/ started' # started
    \/ pc[CleanupThread] = "idle" /\ pc'[CleanupThread] # "idle"

C38_OneDigestLoop ==
    Cardinality({ t \in DigestThreads : Running(t) }) <= 1

\* the names of the sample protocols: the three listed ones, Protocol-n for the
\* others, no two alike
ProtocolNames ==
    /\ get_protocol_name(1) = "ICMP"
    /\ get_protocol_name(6) = "TCP"
    /\ get_protocol_name(17) = "UDP"
    /\ get_protocol_name(0) = "Protocol-0"
    /\ get_protocol_name(47) = "Protocol-47"
    /\ get_protocol_name(255) = "Protocol-255"
    /\ \A m, n \in ProtoSamples : m # n => get_protocol_name(m) # get_protocol_name(n)

\* C39: 1, 6 and 17 are named ICMP, TCP and UDP and any other number n
\* Protocol-n, no two numbers alike; and whenever protocol_distribution returns
\* what the record store answered, it has one entry per protocol of the active
\* records, each under its protocol's name with that protocol's count.
C39_ProtocolNamesInjective ==
    [][/\ ProtocolNames
       /\ (DistributionReturns /\ Answered) =>
            LET groups == GroupByProtocol(work) IN
            /\ Cardinality(DOMAIN query'.result) = Cardinality(DOMAIN groups)
            /\ \A p \in DOMAIN groups :
                  /\ get_protocol_name(p) \in DOMAIN query'.result
                  /\ query'.result[get_protocol_name(p)].count = groups[p]]_vars

\* C39 witness: protocol_distribution has returned two active records of two
\* unlisted protocols as two entries
C39_Witness ==
    /\ query.name = "protocol_distribution" /\ query.pc = "idle"
    /\ Cardinality(ActiveRows(work)) = 2
    /\ DOMAIN query.result = {"Protocol-47", "Protocol-255"}
    /\ query.result["Protocol-47"].count = 1
    /\ query.result["Protocol-255"].count = 1

\* quad is the dotted quad of the address n = <<high, low>>: four octets in
\* 0..255 with a * 2^24 + b * 2^16 + c * 2^8 + d = high * 2^16 + low
QuadOf(quad, n) ==
    /\ Len(quad) = 4
    /\ \A i \in 1..4 : quad[i] \in 0..255
    /\ quad[1] * 256 + quad[2] = n[1]
    /\ quad[3] * 256 + quad[4] = n[2]

\* the INSERT of a digest is sent at this step
Inserts == pc["d1"] = "write" /\ pc'["d1"] = "commit" /\ ~local["d1"].found

\* C40: the src_ip written for a digest with the 32-bit source address n is the
\* dotted quad a.b.c.d of n, every octet in 0..255 and the octets making up n;
\* its text differs from the text of every other address, and 0xC0A80164 gives
\* 192.168.1.100.
C40_IntToIp ==
    [][/\ Dotted(int_to_ip(Addr(49320, 356))) = "192.168.1.100"
       /\ Inserts =>
            LET n == local["d1"].digest_data.d.src_ip
                quad == Last(work').src_ip
            IN /\ QuadOf(quad, n)
               /\ \A m \in AddrSamples :
                     m # n => Dotted(int_to_ip(m)) # Dotted(quad)]_vars

\* C40 witness: two flows with the source addresses 255.255.0.0 and
\* 192.168.255.255 have been stored with those quads
C40_Witness ==
    /\ Len(table) = 2
    /\ Dotted(table[1].src_ip) = "255.255.0.0"
    /\ Dotted(table[2].src_ip) = "192.168.255.255"

====
